---- MODULE Spec2Model ----
(***************************************************************************)
(* Model of the MCP Qdrant semantic-search server: the startup sequence,   *)
(* the CallTool handler with its seven tools, the QdrantService and        *)
(* EmbeddingService wrappers, and the two external services as far as the  *)
(* wrappers use them.                                                      *)
(*                                                                         *)
(* Conventions.  A JavaScript object is a TLA+ record that has exactly the *)
(* keys that are present; an omitted key is a key outside DOMAIN.  A       *)
(* string is a sequence of one-character strings.  Point ids (UUIDs) are   *)
(* positive naturals.  Similarity scores are in tenths (7 is 0.7).         *)
(***************************************************************************)
EXTENDS Integers, Sequences, FiniteSets, TLC

\* ---------------------------------------------------------------- bounds
MaxIds == 2              \* ids uuidv4 can mint / callers can name, main Spec
MaxSearchPoints == 6     \* collection size in SpecSearch
MaxListPoints == 4       \* collection size in SpecList
MaxStores == 1           \* store_memory calls that mint an id, SpecStore
MaxInFlight == 2         \* store_memory invocations suspended at once, SpecConc

\* ------------------------------------------------------ program constants
EMBEDDING_DIMENSIONS == 1536
DefaultSearchLimit == 5
DefaultThreshold == 7
DefaultListLimit == 10
TruncateAt == 100

\* --------------------------------------------------------------- values
EmptyObject == [k \in {} |-> TRUE]

Min(a, b) == IF a < b THEN a ELSE b

Abs(n) == IF n < 0 THEN -n ELSE n

\* A content argument: a string, or a non-string JSON value (an array of
\* token numbers, which the embedding provider also accepts as input).
Str(s) == [type |-> "string", chars |-> s]

TokenArray == [type |-> "array", chars |-> <<"t">>]

Contents == {Str(<<"a">>), TokenArray}

\* Caller-supplied metadata objects, two of them colliding with the
\* reserved payload keys.
Metas ==
  { EmptyObject,
    [tag |-> "x", timestamp |-> "t0"],
    [content |-> Str(<<"z">>)] }

Times == {"t1"}

Ids == 1 .. MaxIds

\* JSON values a caller can send as `confirm`.
ConfirmValues == {"true", "false", "null", "0", "1", "''", "'yes'"}

ToolNames ==
  { "store_memory", "search_memory", "delete_memory", "get_memory",
    "list_memories", "get_stats", "clear_all_memories" }

UnknownNames == {"update_memory"}

\* Outcome of a call to an external service: it returns, or it throws an
\* Error with some message.
Ok == <<"ok">>

ProviderErrors == {<<"provider error">>}

Outcomes == {Ok} \cup ProviderErrors

\* JavaScript truthiness of a JSON value (the operand of `!confirm`).
Truthy(v) == v \notin {"false", "null", "0", "''", "undefined"}

\* Destructuring with a default: `const { k = d } = args`.
Get(args, k, d) == IF k \in DOMAIN args THEN args[k] ELSE d

\* ------------------------------------------------------------ variables
VARIABLES
  pc,          \* position of the module's top-level code / process state
  env,         \* process environment: [OPENAI_API_KEY: BOOLEAN]
  collection,  \* the named collection in Qdrant: [exists, size, distance]
  points,      \* the collection's points: id -> [vector, payload]
  minted,      \* number of ids uuidv4 has produced
  removed,     \* ids of points that were stored and later deleted
  request,     \* params of the last CallTool request
  calls,       \* external calls issued by startup / by the last request
  response,    \* envelope returned for the last request
  pager,       \* a client enumerating the collection with list_memories
  inflight     \* invocations suspended at an await: slot -> its locals

vars ==
  << pc, env, collection, points, minted, removed, request, calls,
     response, pager, inflight >>

NoRequest == [name |-> "none"]

NoResponse == [none |-> TRUE]



\* ------------------------------------------------- embedding provider
\* openai.embeddings.create: the vector of a text, here the direction of
\* its first character; equal inputs give equal vectors.
Angle(ch) == CASE ch = "a" -> 0 [] ch = "b" -> 1 [] OTHER -> 2

Embedding(text) == IF text.chars = <<>> THEN 0 ELSE Angle(Head(text.chars))

\* EmbeddingService.generateEmbedding when the provider call succeeds.
generateEmbedding(text) == Embedding(text)

\* Cosine similarity of two vectors, in tenths.
Cosine(v, w) == 10 - 3 * Abs(v - w)

\* ------------------------------------------------------- vector store
Null == [null |-> TRUE]

NoOffset == 0

SetToSeq(S) ==
  LET RECURSIVE Asc(_)
      Asc(T) == IF T = {} THEN <<>>
                ELSE LET m == CHOOSE x \in T : \A y \in T : x <= y
                     IN <<m>> \o Asc(T \ {m})
  IN Asc(S)

\* client.upsert: insert-or-replace keyed by id.
Upsert(pts, id, vector, payload) ==
  [i \in DOMAIN pts \cup {id} |->
     IF i = id THEN [vector |-> vector, payload |-> payload] ELSE pts[i]]

\* client.delete with a list of point ids: absent ids are ignored.
DeleteIds(pts, ids) == [i \in DOMAIN pts \ ids |-> pts[i]]

\* A Qdrant filter: the empty filter has no condition and matches every
\* point; otherwise one must-condition on a payload key.
Matches(payload, filter) ==
  \/ filter = EmptyObject
  \/ /\ filter.key \in DOMAIN payload
     /\ payload[filter.key] = filter.match

\* client.delete with a filter.
DeleteByFilter(pts, filter) ==
  [i \in {j \in DOMAIN pts : ~Matches(pts[j].payload, filter)} |-> pts[i]]

\* client.retrieve with with_payload: true, with_vector: false.
Retrieve(pts, ids) ==
  LET found == SetToSeq({i \in DOMAIN pts : \E n \in DOMAIN ids : ids[n] = i})
  IN [n \in DOMAIN found |-> [id |-> found[n], payload |-> pts[found[n]].payload]]

\* client.scroll: points in id order starting at `offset` (inclusive), at
\* most `limit` of them, and the id the next page starts at (0: none).
Scroll(pts, limit, offset) ==
  LET rest == SetToSeq({i \in DOMAIN pts : i >= offset})
      n == Min(limit, Len(rest))
  IN [points |-> [k \in 1 .. n |-> [id |-> rest[k], payload |-> pts[rest[k]].payload]],
      next_page_offset |-> IF Len(rest) > n THEN rest[n + 1] ELSE NoOffset]

\* client.search: the points passing the filter whose score reaches
\* score_threshold, best first (ties by id), at most `limit` of them.
Search(pts, vector, limit, score_threshold, filter) ==
  LET score(i) == Cosine(vector, pts[i].vector)
      hits == {i \in DOMAIN pts :
                 /\ Matches(pts[i].payload, filter)
                 /\ score(i) >= score_threshold}
      RECURSIVE Ranked(_)
      Ranked(T) ==
        IF T = {} THEN <<>>
        ELSE LET b == CHOOSE x \in T : \A y \in T :
                        \/ score(x) > score(y)
                        \/ score(x) = score(y) /\ x <= y
             IN <<b>> \o Ranked(T \ {b})
      ranked == Ranked(hits)
  IN [k \in 1 .. Min(limit, Len(ranked)) |->
        [id |-> ranked[k], score |-> score(ranked[k]),
         payload |-> pts[ranked[k]].payload]]

\* client.getCollection.
GetCollection(coll, pts) ==
  [points_count |-> Cardinality(DOMAIN pts),
   indexed_vectors_count |-> 0,
   segments_count |-> 1,
   status |-> "green"]

\* ------------------------------------------------------ QdrantService
storeMemory(pts, id, vector, payload) == Upsert(pts, id, vector, payload)

\* searchSimilar that does not pass score_threshold to the client.
searchSimilar_NoThreshold(pts, queryVector, limit, scoreThreshold, filter) ==
  Search(pts, queryVector, limit, -10, filter)

searchSimilar(pts, queryVector, limit, scoreThreshold, filter) ==
  Search(pts, queryVector, limit, scoreThreshold, filter)

\* deleteMemory that sends the unconditional filter of clearAllMemories.
deleteMemory_ByFilter(pts, id) == DeleteByFilter(pts, EmptyObject)

deleteMemory(pts, id) == DeleteIds(pts, {id})

\* getMemory that answers an empty record instead of null.
getMemory_NeverNull(pts, id) ==
  LET results == Retrieve(pts, <<id>>)
  IN IF Len(results) > 0 THEN results[1]
     ELSE [id |-> id, payload |-> EmptyObject]

getMemory(pts, id) ==
  LET results == Retrieve(pts, <<id>>)
  IN IF Len(results) > 0 THEN results[1] ELSE Null

listMemories(pts, limit, offset) == Scroll(pts, limit, offset).points

\* clearAllMemories that sends an empty id list instead of the empty filter.
clearAllMemories_NoIds(pts) == DeleteIds(pts, {})

clearAllMemories(pts) == DeleteByFilter(pts, EmptyObject)

getStats(coll, pts) ==
  LET info == GetCollection(coll, pts)
  IN [name |-> "semantic_memory",
      points_count |-> info.points_count,
      indexed_vectors_count |-> info.indexed_vectors_count,
      segments_count |-> info.segments_count,
      status |-> info.status]


\* ------------------------------------------------------ result envelopes
\* JSON.stringify(body, null, 2) applied to JSON values only: the text is
\* kept as the value it parses back to.
TextResult(body) == [content |-> <<[type |-> "text", text |-> body]>>]

\* A catch block that forgets the isError tag.
ErrorResult_Untagged(errorMessage) ==
  TextResult([success |-> FALSE, error |-> errorMessage])

\* A catch block that reports a fixed message.
ErrorResult_Generic(errorMessage) ==
  [content |-> <<[type |-> "text",
                  text |-> [success |-> FALSE, error |-> <<"Internal error">>]]>>,
   isError |-> TRUE]

\* The catch block of the CallTool handler.
ErrorResult(errorMessage) ==
  [content |-> <<[type |-> "text",
                  text |-> [success |-> FALSE, error |-> errorMessage]]>>,
   isError |-> TRUE]

\* TypeError thrown by destructuring `args` when the request has none.
DestructureError(key) == <<"Cannot destructure property", key, "of undefined">>

\* TypeError thrown by calling a string method on a non-string.
NotAFunctionError(method) == <<method, "is not a function">>

UnknownToolError(name) == <<"Unknown tool:", name>>

Call(service, op, outcome) == [service |-> service, op |-> op, outcome |-> outcome]

\* A truncation that appends the ellipsis whatever the length.
Truncated_AlwaysEllipsis(chars) ==
  SubSeq(chars, 1, Min(TruncateAt, Len(chars))) \o <<".", ".", ".">>

\* content.substring(0, 100) + (content.length > 100 ? '...' : '')
Truncated(chars) ==
  SubSeq(chars, 1, Min(TruncateAt, Len(chars)))
    \o (IF Len(chars) > TruncateAt THEN <<".", ".", ".">> ELSE <<>>)

\* The payload with the metadata spread first, the reserved keys winning.
Payload_ReservedWin(content, now, metadata) ==
  [k \in {"content", "timestamp"} \cup DOMAIN metadata |->
     IF k = "content" THEN content
     ELSE IF k = "timestamp" THEN now ELSE metadata[k]]

\* { content, timestamp: new Date().toISOString(), ...metadata }
Payload(content, now, metadata) ==
  [k \in {"content", "timestamp"} \cup DOMAIN metadata |->
     IF k \in DOMAIN metadata THEN metadata[k]
     ELSE IF k = "content" THEN content ELSE now]

\* An id derived from a fixed seed instead of uuidv4().
uuidv4_Fixed(mnt) == 1

\* uuidv4(): an id no earlier call returned, the next of the ids minted.
uuidv4(mnt) == mnt + 1

\* What one invocation of the handler leaves behind.
Effect(pts, mnt, cls, rsp) ==
  [points |-> pts, minted |-> mnt, calls |-> cls, response |-> rsp]

\* ---------------------------------------------- CallTool handler cases
\* case 'store_memory'
store_memory(params, embedded, stored, now) ==
  IF "arguments" \notin DOMAIN params
  THEN Effect(points, minted, <<>>, ErrorResult(DestructureError("content")))
  ELSE
    LET args == params.arguments
        content == args.content
        metadata == Get(args, "metadata", EmptyObject)
        c1 == <<Call("openai", "embeddings.create", embedded)>>
    IN IF embedded # Ok
       THEN Effect(points, minted, c1, ErrorResult(embedded))
       ELSE
         LET vector == generateEmbedding(content)
             id == uuidv4(minted)
             payload == Payload(content, now, metadata)
             c2 == Append(c1, Call("qdrant", "upsert", stored))
         IN IF stored # Ok
            THEN Effect(points, id, c2, ErrorResult(stored))
            ELSE
              LET pts == storeMemory(points, id, vector, payload)
              IN IF content.type # "string"
                 THEN Effect(pts, id, c2,
                             ErrorResult(NotAFunctionError("content.substring")))
                 ELSE Effect(pts, id, c2,
                        TextResult([success |-> TRUE,
                                    message |-> "Memory stored successfully",
                                    id |-> id,
                                    content |-> Truncated(content.chars),
                                    metadata |-> metadata]))

\* case 'search_memory'
search_memory(params, embedded, searched) ==
  IF "arguments" \notin DOMAIN params
  THEN Effect(points, minted, <<>>, ErrorResult(DestructureError("query")))
  ELSE
    LET args == params.arguments
        query == args.query
        limit == Get(args, "limit", DefaultSearchLimit)
        threshold == Get(args, "threshold", DefaultThreshold)
        filter == Get(args, "filter", EmptyObject)
        c1 == <<Call("openai", "embeddings.create", embedded)>>
    IN IF embedded # Ok
       THEN Effect(points, minted, c1, ErrorResult(embedded))
       ELSE
         LET queryVector == generateEmbedding(query)
             c2 == Append(c1, Call("qdrant", "search", searched))
         IN IF searched # Ok
            THEN Effect(points, minted, c2, ErrorResult(searched))
            ELSE
              LET results == searchSimilar(points, queryVector, limit,
                                           threshold, filter)
                  formattedResults ==
                    [k \in DOMAIN results |->
                       [id |-> results[k].id,
                        score |-> results[k].score,
                        content |-> results[k].payload.content,
                        metadata |-> results[k].payload]]
              IN Effect(points, minted, c2,
                   TextResult([success |-> TRUE,
                               query |-> query,
                               results_count |-> Len(formattedResults),
                               results |-> formattedResults]))

\* case 'delete_memory' with the delete call reissued once after a failure.
delete_memory_Retry(params, deleted) ==
  IF "arguments" \notin DOMAIN params
  THEN Effect(points, minted, <<>>, ErrorResult(DestructureError("id")))
  ELSE
    LET id == params.arguments.id
        c1 == <<Call("qdrant", "delete", deleted)>>
    IN IF deleted # Ok
       THEN Effect(deleteMemory(points, id), minted,
                   Append(c1, Call("qdrant", "delete", Ok)),
                   TextResult([success |-> TRUE,
                               message |-> <<"Memory", id, "deleted successfully">>]))
       ELSE Effect(deleteMemory(points, id), minted, c1,
              TextResult([success |-> TRUE,
                          message |-> <<"Memory", id, "deleted successfully">>]))

\* case 'delete_memory'
delete_memory(params, deleted) ==
  IF "arguments" \notin DOMAIN params
  THEN Effect(points, minted, <<>>, ErrorResult(DestructureError("id")))
  ELSE
    LET id == params.arguments.id
        c1 == <<Call("qdrant", "delete", deleted)>>
    IN IF deleted # Ok
       THEN Effect(points, minted, c1, ErrorResult(deleted))
       ELSE Effect(deleteMemory(points, id), minted, c1,
              TextResult([success |-> TRUE,
                          message |-> <<"Memory", id, "deleted successfully">>]))

\* case 'get_memory'
get_memory(params, retrieved) ==
  IF "arguments" \notin DOMAIN params
  THEN Effect(points, minted, <<>>, ErrorResult(DestructureError("id")))
  ELSE
    LET id == params.arguments.id
        c1 == <<Call("qdrant", "retrieve", retrieved)>>
    IN IF retrieved # Ok
       THEN Effect(points, minted, c1, ErrorResult(retrieved))
       ELSE
         LET memory == getMemory(points, id)
         IN IF memory = Null
            THEN Effect(points, minted, c1,
                   TextResult([success |-> FALSE,
                               message |-> <<"Memory", id, "not found">>]))
            ELSE Effect(points, minted, c1,
                   TextResult([success |-> TRUE,
                               memory |-> [id |-> memory.id,
                                           payload |-> memory.payload]]))


\* case 'list_memories'
list_memories(params, scrolled) ==
  IF "arguments" \notin DOMAIN params
  THEN Effect(points, minted, <<>>, ErrorResult(DestructureError("limit")))
  ELSE
    LET args == params.arguments
        limit == Get(args, "limit", DefaultListLimit)
        offset == Get(args, "offset", NoOffset)
        c1 == <<Call("qdrant", "scroll", scrolled)>>
    IN IF scrolled # Ok
       THEN Effect(points, minted, c1, ErrorResult(scrolled))
       ELSE
         LET memories == listMemories(points, limit, offset)
             formattedMemories ==
               [k \in DOMAIN memories |->
                  [id |-> memories[k].id,
                   content |-> memories[k].payload.content,
                   timestamp |-> memories[k].payload.timestamp,
                   metadata |-> memories[k].payload]]
         IN Effect(points, minted, c1,
              TextResult([success |-> TRUE,
                          count |-> Len(formattedMemories),
                          memories |-> formattedMemories]))

\* case 'get_stats'
get_stats(params, fetched) ==
  LET c1 == <<Call("qdrant", "getCollection", fetched)>>
  IN IF fetched # Ok
     THEN Effect(points, minted, c1, ErrorResult(fetched))
     ELSE Effect(points, minted, c1,
            TextResult([success |-> TRUE,
                        stats |-> getStats(collection, points),
                        embedding_model |-> "text-embedding-3-large",
                        embedding_dimensions |-> EMBEDDING_DIMENSIONS]))

\* case 'clear_all_memories'
clear_all_memories(params, deleted) ==
  IF "arguments" \notin DOMAIN params
  THEN Effect(points, minted, <<>>, ErrorResult(DestructureError("confirm")))
  ELSE
    LET confirm == Get(params.arguments, "confirm", "undefined")
    IN IF ~Truthy(confirm)
       THEN Effect(points, minted, <<>>,
              TextResult([success |-> FALSE,
                          message |-> "You must confirm with confirm=true to delete all memories"]))
       ELSE
         LET c1 == <<Call("qdrant", "delete", deleted)>>
         IN IF deleted # Ok
            THEN Effect(points, minted, c1, ErrorResult(deleted))
            ELSE Effect(clearAllMemories(points), minted, c1,
                   TextResult([success |-> TRUE,
                               message |-> "All memories have been deleted"]))

\* default: throw new Error(`Unknown tool: ${name}`)
unknown_tool(params) ==
  Effect(points, minted, <<>>, ErrorResult(UnknownToolError(params.name)))

\* ---------------------------------------------------------- requests
Requests(name, argsSet) ==
  {[name |-> name]} \cup {[name |-> name, arguments |-> a] : a \in argsSet}

StoreArgs(contents, metas) ==
  {[content |-> c] : c \in {Str(<<"a">>)}}
    \cup {[content |-> c, metadata |-> m] : c \in contents, m \in metas}

SearchLimits == {1, 2}

SearchThresholds == {4, 10}

SearchFilters == {[key |-> "tag", match |-> "x"]}

SearchArgs(queries) ==
  LET base == {[query |-> q] : q \in queries}
      withLimit == base \cup
        {[query |-> a.query, limit |-> l] : a \in base, l \in SearchLimits}
      withThreshold == withLimit \cup
        { IF "limit" \in DOMAIN a
          THEN [query |-> a.query, limit |-> a.limit, threshold |-> t]
          ELSE [query |-> a.query, threshold |-> t]
          : a \in withLimit, t \in SearchThresholds }
  IN withThreshold \cup
       {[query |-> q, filter |-> f] : q \in queries, f \in SearchFilters}

FewSearchArgs ==
  { [query |-> Str(<<"a">>)],
    [query |-> Str(<<"a">>), limit |-> 1, threshold |-> 4] }

IdArgs == {[id |-> i] : i \in Ids}

ListArgs == {EmptyObject, [limit |-> 1], [limit |-> 1, offset |-> 2]}

ConfirmArgs == {EmptyObject} \cup {[confirm |-> v] : v \in ConfirmValues}

\* ------------------------------------------------------------ startup
\* createCollection that skips the existence check and always creates.
createCollection_Always(coll, vectorSize, listed, created) ==
  LET c2 == << Call("qdrant", "getCollections", listed),
               Call("qdrant", "createCollection", created) >>
  IN IF listed # Ok \/ created # Ok
     THEN [collection |-> coll, calls |-> c2, threw |-> TRUE]
     ELSE [collection |-> [exists |-> TRUE, size |-> vectorSize,
                           distance |-> "Cosine"],
           calls |-> c2, threw |-> FALSE]

\* QdrantService.createCollection(vectorSize): the collection afterwards,
\* the client calls issued, and whether the method threw.
createCollection(coll, vectorSize, listed, created) ==
  LET c1 == <<Call("qdrant", "getCollections", listed)>>
  IN IF listed # Ok
     THEN [collection |-> coll, calls |-> c1, threw |-> TRUE]
     ELSE IF ~coll.exists
          THEN LET c2 == Append(c1, Call("qdrant", "createCollection", created))
               IN IF created # Ok
                  THEN [collection |-> coll, calls |-> c2, threw |-> TRUE]
                  ELSE [collection |-> [exists |-> TRUE, size |-> vectorSize,
                                        distance |-> "Cosine"],
                        calls |-> c2, threw |-> FALSE]
          ELSE [collection |-> coll, calls |-> c1, threw |-> FALSE]

NoCollection == [exists |-> FALSE, size |-> 0, distance |-> "none"]

Collections ==
  { NoCollection,
    [exists |-> TRUE, size |-> EMBEDDING_DIMENSIONS, distance |-> "Cosine"],
    [exists |-> TRUE, size |-> EMBEDDING_DIMENSIONS \div 2, distance |-> "Dot"] }

\* No invocation is suspended.
NoneInFlight == EmptyObject

IdlePager == [active |-> FALSE, limit |-> 1, cursor |-> NoOffset,
              seen |-> <<>>, done |-> FALSE]

Init ==
  /\ pc = "validate"
  /\ env \in [OPENAI_API_KEY : BOOLEAN]
  /\ collection \in Collections
  /\ points = EmptyObject
  /\ minted = 0
  /\ removed = {}
  /\ request = NoRequest
  /\ calls = <<>>
  /\ response = NoResponse
  /\ pager = IdlePager
  /\ inflight = NoneInFlight

\* A configuration check that logs the missing key and carries on.
ValidateConfig_NoExit ==
  /\ pc = "validate"
  /\ pc' = "init_collection"
  /\ UNCHANGED << env, collection, points, minted, removed, request, calls,
                  response, pager, inflight >>

\* if (!OPENAI_API_KEY) { ...; process.exit(1); }
ValidateConfig ==
  /\ pc = "validate"
  /\ pc' = IF env.OPENAI_API_KEY THEN "init_collection" ELSE "exit1"
  /\ UNCHANGED << env, collection, points, minted, removed, request, calls,
                  response, pager, inflight >>

\* try { await qdrantService.createCollection(...) } catch { process.exit(1) }
InitCollection ==
  /\ pc = "init_collection"
  /\ \E listed \in Outcomes, created \in Outcomes :
       LET r == createCollection(collection, EMBEDDING_DIMENSIONS, listed, created)
       IN /\ collection' = r.collection
          /\ calls' = r.calls
          /\ pc' = IF r.threw THEN "exit1" ELSE "main"
  /\ UNCHANGED << env, points, minted, removed, request, response, pager,
                  inflight >>

\* main(): await server.connect(transport); a rejection exits with 1.
Main ==
  /\ pc = "main"
  /\ \E connected \in Outcomes :
       pc' = IF connected = Ok THEN "serving" ELSE "exit1"
  /\ UNCHANGED << env, collection, points, minted, removed, request, calls,
                  response, pager, inflight >>

\* ------------------------------------------------------------ serving
\* Outcomes of a call that sends a vector of EMBEDDING_DIMENSIONS numbers:
\* a collection of another vector size rejects it.
VectorOutcomes ==
  IF collection.size = EMBEDDING_DIMENSIONS THEN Outcomes ELSE ProviderErrors

\* One CallTool request handled from entry to the returned envelope.
Serve(params, effect) ==
  /\ pc = "serving"
  /\ request' = params
  /\ points' = effect.points
  /\ minted' = effect.minted
  /\ removed' = removed \cup (DOMAIN points \ DOMAIN effect.points)
  /\ calls' = effect.calls
  /\ response' = effect.response
  /\ UNCHANGED << pc, env, collection, inflight >>

StoreMemory ==
  /\ minted < MaxIds
  /\ \E params \in Requests("store_memory", StoreArgs(Contents, Metas)),
        embedded \in Outcomes, stored \in VectorOutcomes, now \in Times :
       Serve(params, store_memory(params, embedded, stored, now))
  /\ UNCHANGED pager

SearchMemory ==
  /\ \E params \in Requests("search_memory", FewSearchArgs),
        embedded \in Outcomes, searched \in VectorOutcomes :
       Serve(params, search_memory(params, embedded, searched))
  /\ UNCHANGED pager

DeleteMemory ==
  /\ \E params \in Requests("delete_memory", IdArgs), deleted \in Outcomes :
       Serve(params, delete_memory(params, deleted))
  /\ UNCHANGED pager

GetMemory ==
  /\ \E params \in Requests("get_memory", IdArgs), retrieved \in Outcomes :
       Serve(params, get_memory(params, retrieved))
  /\ UNCHANGED pager

ListMemories ==
  /\ \E params \in Requests("list_memories", ListArgs), scrolled \in Outcomes :
       Serve(params, list_memories(params, scrolled))
  /\ UNCHANGED pager

GetStats ==
  /\ \E params \in Requests("get_stats", {EmptyObject}), fetched \in Outcomes :
       Serve(params, get_stats(params, fetched))
  /\ UNCHANGED pager

ClearAllMemories ==
  /\ \E params \in Requests("clear_all_memories", ConfirmArgs),
        deleted \in Outcomes :
       Serve(params, clear_all_memories(params, deleted))
  /\ UNCHANGED pager

UnknownTool ==
  /\ \E params \in UNION {Requests(n, {EmptyObject}) : n \in UnknownNames} :
       Serve(params, unknown_tool(params))
  /\ UNCHANGED pager

Next ==
  \/ ValidateConfig
  \/ InitCollection
  \/ Main
  \/ StoreMemory
  \/ SearchMemory
  \/ DeleteMemory
  \/ GetMemory
  \/ ListMemories
  \/ GetStats
  \/ ClearAllMemories
  \/ UnknownTool

Spec == Init /\ [][Next]_vars


\* ------------------------------------------- search over a full collection
\* A collection as store_memory leaves it: points 1..n, each stored from a
\* content of `contents` at time "t1", the "a" ones tagged.
StoredPoint(content) ==
  [vector |-> generateEmbedding(content),
   payload |-> Payload(content, "t1",
                       IF content = Str(<<"a">>) THEN [tag |-> "x"]
                       ELSE EmptyObject)]

Serving ==
  /\ pc = "serving"
  /\ env = [OPENAI_API_KEY |-> TRUE]
  /\ collection = [exists |-> TRUE, size |-> EMBEDDING_DIMENSIONS,
                   distance |-> "Cosine"]
  /\ removed = {}
  /\ request = NoRequest
  /\ calls = <<>>
  /\ response = NoResponse
  /\ pager = IdlePager
  /\ inflight = NoneInFlight

InitSearch ==
  /\ Serving
  /\ \E n \in 0 .. MaxSearchPoints :
       \E f \in [1 .. n -> {Str(<<"a">>), Str(<<"c">>)}] :
         /\ points = [i \in 1 .. n |-> StoredPoint(f[i])]
         /\ minted = n

SearchFull ==
  /\ \E params \in Requests("search_memory",
                            SearchArgs({Str(<<"a">>), Str(<<"b">>)})),
        embedded \in Outcomes, searched \in VectorOutcomes :
       Serve(params, search_memory(params, embedded, searched))
  /\ UNCHANGED pager

NextSearch == SearchFull

SpecSearch == InitSearch /\ [][NextSearch]_vars

\* ------------------------------------------------ paging through the list
InitList ==
  /\ Serving
  /\ \E S \in SUBSET (1 .. MaxListPoints) :
       /\ points = [i \in S |-> StoredPoint(Str(<<"a">>))]
       /\ minted = MaxListPoints

PageLimits == {1, 2}

\* The cursor a list_memories response carries for the following page.
CursorOf(rsp) ==
  IF "next_page_offset" \in DOMAIN rsp.content[1].text
  THEN rsp.content[1].text.next_page_offset
  ELSE NoOffset

\* A client starts an enumeration with page size `limit`.
PagerStart ==
  /\ pc = "serving"
  /\ \E limit \in PageLimits :
       pager' = [active |-> TRUE, limit |-> limit, cursor |-> NoOffset,
                 seen |-> <<>>, done |-> FALSE]
  /\ UNCHANGED << pc, env, collection, points, minted, removed, request,
                  calls, response, inflight >>

\* The client fetches the next page, passing the cursor of the previous
\* response as `offset`; a failed call is simply repeated later.
PagerNext ==
  /\ pager.active /\ ~pager.done
  /\ \E scrolled \in Outcomes :
       LET params ==
             [name |-> "list_memories",
              arguments |->
                IF pager.cursor = NoOffset THEN [limit |-> pager.limit]
                ELSE [limit |-> pager.limit, offset |-> pager.cursor]]
           effect == list_memories(params, scrolled)
           body == effect.response.content[1].text
       IN /\ Serve(params, effect)
          /\ pager' =
               IF ~body.success THEN pager
               ELSE [pager EXCEPT
                       !.seen = @ \o [k \in DOMAIN body.memories |->
                                        body.memories[k].id],
                       !.cursor = CursorOf(effect.response),
                       !.done = (CursorOf(effect.response) = NoOffset)]

NextList == PagerStart \/ PagerNext

SpecList == InitList /\ [][NextList]_vars


\* =============================================================== claims
Body(rsp) == rsp.content[1].text

IsErrorTagged(rsp) == "isError" \in DOMAIN rsp /\ rsp.isError

HasArgs(req) == "arguments" \in DOMAIN req

AllOk(cls) == \A k \in DOMAIN cls : cls[k].outcome = Ok

\* The step handles a request for tool `name` that carries arguments.
Handles(name) ==
  /\ pc = "serving"
  /\ request'.name = name
  /\ HasArgs(request')

\* ------------------------------------------------------------------ C1
C1_StoreThenGet ==
  /\ request.name = "store_memory"
  /\ HasArgs(request)
  /\ request.arguments.content.type = "string"
  /\ ~IsErrorTagged(response)
  /\ Handles("get_memory")
  /\ request'.arguments.id = Body(response).id
  /\ AllOk(calls')

C1_Metadata == Get(request.arguments, "metadata", EmptyObject)

C1_Found ==
  /\ ~IsErrorTagged(response')
  /\ Body(response').success
  /\ DOMAIN C1_Metadata \subseteq DOMAIN Body(response').memory.payload

\* C1 as stated: a successful store_memory followed by get_memory with the
\* returned id yields success:true and a record whose payload.content is the
\* content argument and whose payload has every metadata key, for every
\* metadata object, also one with a key `content`.
C1_ContentAlwaysOriginal ==
  [][C1_StoreThenGet =>
       /\ C1_Found
       /\ Body(response').memory.payload.content = request.arguments.content]_vars

\* C1 amended: a successful store_memory followed by get_memory with the
\* returned id (the retrieve call succeeding) yields success:true and a
\* record whose payload has every metadata key; its payload.content is the
\* content argument when the metadata has no key `content`, and the
\* metadata's `content` value when it has one.
C1_RoundTrip ==
  [][C1_StoreThenGet =>
       /\ C1_Found
       /\ Body(response').memory.payload.content =
            IF "content" \in DOMAIN C1_Metadata
            THEN C1_Metadata.content
            ELSE request.arguments.content]_vars

C1_Witness ==
  /\ request.name = "get_memory"
  /\ HasArgs(request)
  /\ request.arguments.id = minted
  /\ ~IsErrorTagged(response)
  /\ Body(response).success
  /\ "tag" \in DOMAIN Body(response).memory.payload
  /\ Body(response).memory.payload.content = Str(<<"a">>)

\* ------------------------------------------------------------------ C2
\* C2: for every `confirm` other than boolean true (false, omitted, null, a
\* non-empty string, a non-zero number) clear_all_memories issues no delete
\* call, leaves the collection unchanged and returns a response that is not
\* error-tagged and has success:false.
C2_NoDeleteUnlessTrue ==
  [][(/\ Handles("clear_all_memories")
      /\ Get(request'.arguments, "confirm", "undefined") # "true")
     => /\ \A k \in DOMAIN calls' : calls'[k].op # "delete"
        /\ points' = points
        /\ ~IsErrorTagged(response')
        /\ ~Body(response').success]_vars

\* ------------------------------------------------------------------ C3
\* C3: chaining the cursor carried by each list_memories response into the
\* next call's offset enumerates every stored record exactly once: when the
\* enumeration ends, the ids seen are the ids stored, none twice.
C3_PagingEnumeratesAll ==
  pager.done =>
    /\ {pager.seen[k] : k \in DOMAIN pager.seen} = DOMAIN points
    /\ Len(pager.seen) = Cardinality(DOMAIN points)

\* ------------------------------------------------------------------ C4
\* An exception is thrown while handling the last request: a client call
\* failed, the tool is unknown, `args` is undefined where it is
\* destructured, or a string method is called on non-string content.
ExceptionOccurred ==
  \/ ~AllOk(calls)
  \/ request.name \notin ToolNames
  \/ ~HasArgs(request) /\ request.name # "get_stats"
  \/ /\ request.name = "store_memory"
     /\ HasArgs(request)
     /\ request.arguments.content.type # "string"

NotFoundCase ==
  /\ request.name = "get_memory"
  /\ HasArgs(request)
  /\ AllOk(calls)
  /\ request.arguments.id \notin DOMAIN points

UnconfirmedCase ==
  /\ request.name = "clear_all_memories"
  /\ HasArgs(request)
  /\ ~Truthy(Get(request.arguments, "confirm", "undefined"))

\* C4: a response is error-tagged exactly when an exception occurred while
\* handling the call; get_memory on an absent id and clear_all_memories
\* without confirmation return success:false without the error tag.
C4_ErrorTagIffException ==
  request # NoRequest =>
    /\ IsErrorTagged(response) <=> ExceptionOccurred
    /\ (NotFoundCase \/ UnconfirmedCase) =>
         ~IsErrorTagged(response) /\ ~Body(response).success

C4_Witness ==
  /\ NotFoundCase
  /\ ~IsErrorTagged(response)
  /\ ~Body(response).success
  /\ points # EmptyObject

\* ------------------------------------------------------------------ C5
\* The message of the exception thrown while handling the last request.
ThrownMessages ==
  IF ~AllOk(calls) THEN {calls[Len(calls)].outcome}
  ELSE IF request.name \notin ToolNames THEN {UnknownToolError(request.name)}
  ELSE IF ~HasArgs(request)
       THEN {DestructureError(k) :
               k \in {"content", "query", "id", "limit", "confirm"}}
  ELSE {NotAFunctionError("content.substring")}

\* C5: once serving, every call returns an envelope with exactly one text
\* item whose body has a boolean `success`; no exception escapes, and when
\* one occurred the body's `error` is the exception's message.
C5_AlwaysEnvelope ==
  request # NoRequest =>
    /\ pc = "serving"
    /\ "content" \in DOMAIN response
    /\ Len(response.content) = 1
    /\ response.content[1].type = "text"
    /\ "success" \in DOMAIN Body(response)
    /\ Body(response).success \in BOOLEAN
    /\ ExceptionOccurred =>
         /\ "error" \in DOMAIN Body(response)
         /\ Body(response).error \in ThrownMessages
         /\ ~Body(response).success

C5_Witness ==
  /\ request.name = "store_memory"
  /\ ~HasArgs(request)
  /\ IsErrorTagged(response)
  /\ Body(response).error = DestructureError("content")


\* ------------------------------------------------------------------ C6
\* C6: get_memory on an id that is not in the collection (never stored, or
\* removed by delete_memory or a confirmed clear_all_memories) returns a
\* response with success:false and no error tag when the lookup itself
\* succeeds: getMemory returns null instead of throwing.
C6_AbsentIdIsNotFound ==
  NotFoundCase =>
    /\ ~IsErrorTagged(response)
    /\ ~Body(response).success
    /\ DOMAIN Body(response) = {"success", "message"}

C6_Witness ==
  /\ NotFoundCase
  /\ request.arguments.id \in removed
  /\ ~Body(response).success

\* ------------------------------------------------------------------ C7
C7_ConfirmedClear ==
  /\ Handles("clear_all_memories")
  /\ Get(request'.arguments, "confirm", "undefined") = "true"
  /\ AllOk(calls')

C7_Stats ==
  /\ pc = "serving"
  /\ request'.name = "get_stats"
  /\ AllOk(calls')

\* C7: clear_all_memories with confirm:true removes every record and returns
\* success:true; the collection then stays empty until a store_memory, and
\* get_stats on an empty collection (cleared or freshly created) reports
\* points_count 0.
C7_ClearThenStatsZero ==
  [][/\ C7_ConfirmedClear =>
          /\ points' = EmptyObject
          /\ ~IsErrorTagged(response')
          /\ Body(response').success
     /\ (points = EmptyObject /\ request'.name # "store_memory") =>
          points' = EmptyObject
     /\ (C7_Stats /\ points = EmptyObject) =>
          /\ Body(response').success
          /\ Body(response').stats.points_count = 0]_vars

C7_Witness ==
  /\ request.name = "clear_all_memories"
  /\ HasArgs(request)
  /\ Get(request.arguments, "confirm", "undefined") = "true"
  /\ AllOk(calls)
  /\ Body(response).success
  /\ points = EmptyObject
  /\ Cardinality(removed) = MaxIds

\* ------------------------------------------------------------------ C8
C8_Limit == Get(request.arguments, "limit", 5)

C8_Threshold == Get(request.arguments, "threshold", 7)

\* C8: the results of a successful search_memory are in non-increasing
\* score order, are at most `limit` (5 when omitted), each score is at least
\* the threshold (0.7 when omitted), and results_count is their number; an
\* empty list is a success.
C8_SearchResults ==
  (request.name = "search_memory" /\ HasArgs(request) /\ AllOk(calls)) =>
    LET body == Body(response)
        results == body.results
    IN /\ ~IsErrorTagged(response)
       /\ body.success
       /\ body.results_count = Len(results)
       /\ Len(results) <= C8_Limit
       /\ \A k \in DOMAIN results : results[k].score >= C8_Threshold
       /\ \A j, k \in DOMAIN results : j < k => results[j].score >= results[k].score

C8_Witness ==
  /\ request.name = "search_memory"
  /\ HasArgs(request)
  /\ DOMAIN request.arguments = {"query"}
  /\ AllOk(calls)
  /\ Len(Body(response).results) = 5
  /\ Cardinality({i \in DOMAIN points :
                    Cosine(generateEmbedding(request.arguments.query),
                           points[i].vector) >= 7}) > 5

\* ------------------------------------------------------------------ C9
C9_Delete ==
  /\ Handles("delete_memory")
  /\ AllOk(calls')

\* C9: delete_memory on an id that is not in the collection returns a
\* success response without the error tag and leaves the collection
\* unchanged; after any successful delete_memory the id is absent, so a
\* second call with the same id changes nothing and does not error.
C9_DeleteIdempotent ==
  [][C9_Delete =>
       /\ ~IsErrorTagged(response')
       /\ Body(response').success
       /\ request'.arguments.id \notin DOMAIN points'
       /\ request'.arguments.id \notin DOMAIN points => points' = points]_vars

C9_Witness ==
  /\ request.name = "delete_memory"
  /\ HasArgs(request)
  /\ AllOk(calls)
  /\ Body(response).success
  /\ request.arguments.id \notin removed
  /\ points # EmptyObject

\* ----------------------------------------------------------------- C10
\* C10: a tool call is served only once startup has completed: without the
\* provider credential the process exits with code 1 before any call to an
\* external service, a failed collection setup exits with code 1, and the
\* transport is connected only after createCollection returned normally.
C10_ServeOnlyAfterStartup ==
  [][/\ request' # NoRequest => pc = "serving" /\ pc' = "serving"
     /\ ~env.OPENAI_API_KEY => pc' = "exit1" /\ calls' = <<>>
     /\ (pc = "init_collection" /\ ~AllOk(calls')) => pc' = "exit1"
     /\ (pc' = "serving" /\ pc # "serving") =>
          /\ pc = "main"
          /\ env.OPENAI_API_KEY
          /\ collection.exists
          /\ calls # <<>>
          /\ calls[1].op = "getCollections"
          /\ AllOk(calls)
     /\ pc' = "main" => pc = "init_collection" /\ AllOk(calls')]_vars

C10_Witness ==
  /\ pc = "serving"
  /\ request = NoRequest
  /\ Len(calls) = 2
  /\ calls[2].op = "createCollection"
  /\ collection.size = EMBEDDING_DIMENSIONS


\* ----------------------------------------------------------------- C11
\* The server started again and again against the same Qdrant instance,
\* whose collection may exist already and hold points.
InitStartup ==
  /\ pc = "validate"
  /\ env \in [OPENAI_API_KEY : BOOLEAN]
  /\ collection \in Collections
  /\ \E S \in SUBSET Ids :
       /\ collection.exists \/ S = {}
       /\ \E f \in [S -> {Str(<<"a">>), Str(<<"c">>)}] :
            points = [i \in S |-> StoredPoint(f[i])]
  /\ minted = MaxIds
  /\ removed = {}
  /\ request = NoRequest
  /\ calls = <<>>
  /\ response = NoResponse
  /\ pager = IdlePager
  /\ inflight = NoneInFlight

\* The process has ended, or is stopped while serving, and is spawned anew.
Restart ==
  /\ pc \in {"serving", "exit1"}
  /\ pc' = "validate"
  /\ calls' = <<>>
  /\ \E e \in [OPENAI_API_KEY : BOOLEAN] : env' = e
  /\ UNCHANGED << collection, points, minted, removed, request, response,
                  pager, inflight >>

NextStartup == ValidateConfig \/ InitCollection \/ Main \/ Restart

SpecStartup == InitStartup /\ [][NextStartup]_vars

C11_CreateIssued(cls) == \E k \in DOMAIN cls : cls[k].op = "createCollection"

\* C11: createCollection checks existence first and issues a create only
\* when the collection was found absent; on an existing collection it issues
\* no create, leaves its size, metric and records as they are (whatever the
\* requested vector size) and succeeds, so a further startup changes nothing.
C11_CreateIfAbsent ==
  [][pc = "init_collection" =>
       /\ calls'[1].op = "getCollections"
       /\ points' = points
       /\ C11_CreateIssued(calls') =>
            /\ ~collection.exists
            /\ calls'[1].outcome = Ok
            /\ Len(calls') = 2
       /\ collection.exists =>
            /\ collection' = collection
            /\ ~C11_CreateIssued(calls')
            /\ calls'[1].outcome = Ok => pc' = "main"
       /\ (~collection.exists /\ AllOk(calls')) =>
            /\ C11_CreateIssued(calls')
            /\ collection' = [exists |-> TRUE, size |-> 1536,
                              distance |-> "Cosine"]
            /\ createCollection(collection', 768, Ok, Ok).collection
                 = collection']_vars

C11_Witness ==
  /\ pc = "main"
  /\ calls = <<Call("qdrant", "getCollections", Ok)>>
  /\ collection.size # 1536
  /\ points # EmptyObject


\* ----------------------------------------------------------------- C12
C12_Stored ==
  /\ pc = "serving"
  /\ request'.name = "store_memory"
  /\ ~IsErrorTagged(response')

\* C12: the id a store_memory mints differs from every id minted before, so
\* from the id of every record that exists or was deleted; a successful
\* store_memory adds exactly one record and leaves every existing record as
\* it was.
C12_FreshId ==
  [][C12_Stored =>
       LET id == Body(response').id
       IN /\ id \notin 1 .. minted
          /\ id \notin DOMAIN points
          /\ id \notin removed
          /\ DOMAIN points' = DOMAIN points \cup {id}
          /\ Cardinality(DOMAIN points') = Cardinality(DOMAIN points) + 1
          /\ \A i \in DOMAIN points : points'[i] = points[i]]_vars

C12_Witness ==
  /\ request.name = "store_memory"
  /\ ~IsErrorTagged(response)
  /\ Body(response).id = 2
  /\ removed = {1}
  /\ DOMAIN points = {2}


\* ----------------------------------------------------------------- C13
C13_CallsTo(service) == {k \in DOMAIN calls : calls[k].service = service}

\* C13: an invocation issues at most one call to the embedding provider and
\* at most one to the vector store, the embedding call first; a failed call
\* is the invocation's last call (not reissued, nothing after it) and its
\* message is reported in the error-tagged response.
C13_OneCallEach ==
  request # NoRequest =>
    /\ Cardinality(C13_CallsTo("openai")) <= 1
    /\ Cardinality(C13_CallsTo("qdrant")) <= 1
    /\ \A j \in C13_CallsTo("openai"), k \in C13_CallsTo("qdrant") : j < k
    /\ \A k \in DOMAIN calls :
         calls[k].outcome # Ok =>
           /\ k = Len(calls)
           /\ IsErrorTagged(response)
           /\ Body(response).error = calls[k].outcome

C13_Witness ==
  /\ request.name = "store_memory"
  /\ Len(calls) = 2
  /\ calls[1].service = "openai"
  /\ calls[1].outcome = Ok
  /\ calls[2].service = "qdrant"
  /\ calls[2].outcome # Ok
  /\ IsErrorTagged(response)


\* ------------------------------------------- storing contents of any length
Repeat(ch, n) == [i \in 1 .. n |-> ch]

ContentLengths == {0, 1, 99, 100, 101, 104}

StoreContents == {Str(Repeat("a", n)) : n \in ContentLengths} \cup {TokenArray}

StoreMetas ==
  { EmptyObject,
    [tag |-> "x"],
    [timestamp |-> "t0"],
    [content |-> Str(<<"z">>), tag |-> "x"] }

StoreTimes == {"t1", "t2"}

InitStore ==
  /\ Serving
  /\ points = EmptyObject
  /\ minted = 0

StoreAny ==
  /\ minted < MaxStores
  /\ \E params \in Requests("store_memory", StoreArgs(StoreContents, StoreMetas)),
        embedded \in Outcomes, stored \in VectorOutcomes, now \in StoreTimes :
       Serve(params, store_memory(params, embedded, stored, now))
  /\ UNCHANGED pager

GetStored ==
  /\ \E params \in Requests("get_memory", IdArgs), retrieved \in Outcomes :
       Serve(params, get_memory(params, retrieved))
  /\ UNCHANGED pager

NextStore == StoreAny \/ GetStored

SpecStore == InitStore /\ [][NextStore]_vars

\* ----------------------------------------------------------------- C14
C14_Stored ==
  /\ Handles("store_memory")
  /\ request'.arguments.content.type = "string"
  /\ ~IsErrorTagged(response')

C14_Shown ==
  LET chars == request'.arguments.content.chars
      shown == Body(response').content
  IN /\ Len(chars) > 100 =>
          /\ Len(shown) = 103
          /\ \A i \in 1 .. 100 : shown[i] = chars[i]
          /\ \A i \in 101 .. 103 : shown[i] = "."
     /\ Len(chars) <= 100 => shown = chars

C14_Record == points'[Body(response').id].payload

\* C14 as stated: the response shows the first 100 characters and '...' for
\* longer content and the content itself otherwise, and in both cases the
\* stored record carries the full content.
C14_RecordCarriesContent ==
  [][C14_Stored =>
       /\ C14_Shown
       /\ C14_Record.content = request'.arguments.content]_vars

\* C14 amended: the response shows the first 100 characters and '...' for
\* content longer than 100 characters and the content unchanged otherwise;
\* the stored record carries the full content whenever the metadata has no
\* key `content`, and the metadata's `content` value when it has one (never
\* the truncated text).
C14_TruncatedInResponseOnly ==
  [][C14_Stored =>
       /\ C14_Shown
       /\ C14_Record.content =
            Get(Get(request'.arguments, "metadata", EmptyObject), "content",
                request'.arguments.content)]_vars

C14_Witness ==
  /\ request.name = "store_memory"
  /\ HasArgs(request)
  /\ ~IsErrorTagged(response)
  /\ Len(request.arguments.content.chars) = 101
  /\ Len(Body(response).content) = 103
  /\ Len(points[Body(response).id].payload.content.chars) = 101


\* ----------------------------------------------------------------- C16
\* The step is a store_memory that wrote a record.
C16_Created ==
  /\ Handles("store_memory")
  /\ points' # points

C16_NewId == CHOOSE i \in DOMAIN points' : i \notin DOMAIN points

\* C16: in the payload store_memory assembles, every metadata key carries
\* the metadata's value, `content` and `timestamp` included; a reserved key
\* the metadata lacks carries the content argument, respectively the time of
\* creation, so both reserved keys are on every record created.
C16_MetadataWins ==
  [][C16_Created =>
       LET payload == points'[C16_NewId].payload
           metadata == Get(request'.arguments, "metadata", EmptyObject)
       IN /\ \A k \in DOMAIN metadata : payload[k] = metadata[k]
          /\ {"content", "timestamp"} \subseteq DOMAIN payload
          /\ DOMAIN payload = {"content", "timestamp"} \cup DOMAIN metadata
          /\ "content" \notin DOMAIN metadata =>
               payload.content = request'.arguments.content
          /\ "timestamp" \notin DOMAIN metadata =>
               payload.timestamp \in {"t1", "t2"}]_vars

C16_Witness ==
  /\ request.name = "store_memory"
  /\ HasArgs(request)
  /\ "metadata" \in DOMAIN request.arguments
  /\ DOMAIN request.arguments.metadata = {"content", "tag"}
  /\ points # EmptyObject
  /\ points[minted].payload.content = Str(<<"z">>)
  /\ points[minted].payload.timestamp \in {"t1", "t2"}


\* ----------------------------------------------------------------- C15
C15_Id == request'.arguments.id

C15_Readers == {"search_memory", "get_memory", "list_memories", "get_stats"}

\* C15: the collection changes only by a successful store_memory adding
\* exactly one record, by delete_memory removing at most the record of the
\* given id, and by a confirmed clear_all_memories removing all records; the
\* four reading tools leave it unchanged and no record is altered in place.
C15_OnlyListedChanges ==
  [][/\ \A i \in DOMAIN points \cap DOMAIN points' : points'[i] = points[i]
     /\ request'.name \in C15_Readers => points' = points
     /\ points' # points =>
          \/ /\ request'.name = "store_memory"
             /\ ~IsErrorTagged(response')
             /\ Body(response').success
             /\ DOMAIN points \subseteq DOMAIN points'
             /\ Cardinality(DOMAIN points') = Cardinality(DOMAIN points) + 1
          \/ /\ Handles("delete_memory")
             /\ DOMAIN points' = DOMAIN points \ {C15_Id}
          \/ /\ Handles("clear_all_memories")
             /\ Get(request'.arguments, "confirm", "undefined") = "true"
             /\ points' = EmptyObject]_vars

\* ----------------------------------------------------------------- C18
\* C18: store_memory is all-or-nothing: when its response is error-tagged
\* the invocation has added no record, and when it has added a record the
\* response has success:true and carries that record's id.
C18_StoreAllOrNothing ==
  [][(pc = "serving" /\ request'.name = "store_memory") =>
       /\ IsErrorTagged(response') => points' = points
       /\ points' # points =>
            /\ ~IsErrorTagged(response')
            /\ Body(response').success
            /\ DOMAIN points' = DOMAIN points \cup {Body(response').id}]_vars

\* -------------------------------------------- concurrent store_memory
\* The CallTool handler is an async function: a store_memory invocation
\* suspends at `await generateEmbedding` and at `await storeMemory`, and
\* other invocations run while it is suspended.  Its locals live in its own
\* closure; `inflight` holds them per suspended invocation.
Slots == 1 .. MaxInFlight

ConcContents == {Str(<<"a">>), Str(<<"c">>), TokenArray}

ConcMetas == {[tag |-> "x"]}

Put(f, k, v) == [i \in DOMAIN f \cup {k} |-> IF i = k THEN v ELSE f[i]]

Drop(f, k) == [i \in DOMAIN f \ {k} |-> f[i]]

\* Handler locals kept in variables shared by all invocations: a resuming
\* invocation finds the values of the latest one at the same await.
Locals_Shared(fl, s) ==
  fl[CHOOSE t \in DOMAIN fl :
       /\ fl[t].stage = fl[s].stage
       /\ \A u \in DOMAIN fl : fl[u].stage = fl[s].stage => u <= t]

\* const { content, metadata = {} }, const vector, const id, const payload:
\* block-scoped in the invocation that declared them.
Locals(fl, s) == fl[s]

InitConc ==
  /\ Serving
  /\ points = EmptyObject
  /\ minted = 0

\* Entry of case 'store_memory' up to the first await.
BeginStore ==
  /\ pc = "serving"
  /\ minted + Cardinality(DOMAIN inflight) < MaxIds
  /\ \E s \in Slots,
        params \in Requests("store_memory", StoreArgs(ConcContents, ConcMetas)) :
       /\ s \notin DOMAIN inflight
       /\ \A t \in 1 .. s - 1 : t \in DOMAIN inflight
       /\ IF "arguments" \notin DOMAIN params
          THEN /\ request' = params
               /\ calls' = <<>>
               /\ response' = ErrorResult(DestructureError("content"))
               /\ inflight' = inflight
          ELSE /\ inflight' = Put(inflight, s,
                                  [stage |-> "embedding", params |-> params])
               /\ UNCHANGED << request, calls, response >>
  /\ UNCHANGED << pc, env, collection, points, minted, removed, pager >>

\* `await embeddingService.generateEmbedding(content)` settles; on success
\* the handler runs on to `await qdrantService.storeMemory(...)`.
EmbedReturns ==
  /\ \E s \in DOMAIN inflight, embedded \in Outcomes, now \in Times :
       LET own == Locals(inflight, s)
           content == own.params.arguments.content
           metadata == Get(own.params.arguments, "metadata", EmptyObject)
       IN /\ inflight[s].stage = "embedding"
          /\ IF embedded # Ok
             THEN /\ request' = own.params
                  /\ calls' = <<Call("openai", "embeddings.create", embedded)>>
                  /\ response' = ErrorResult(embedded)
                  /\ inflight' = Drop(inflight, s)
                  /\ minted' = minted
             ELSE /\ inflight' =
                       Put(inflight, s,
                           [stage |-> "storing",
                            params |-> own.params,
                            vector |-> generateEmbedding(content),
                            id |-> uuidv4(minted),
                            payload |-> Payload(content, now, metadata)])
                  /\ minted' = uuidv4(minted)
                  /\ UNCHANGED << request, calls, response >>
  /\ UNCHANGED << pc, env, collection, points, removed, pager >>

\* `await qdrantService.storeMemory(id, vector, payload)` settles and the
\* handler returns its envelope.
UpsertReturns ==
  /\ \E s \in DOMAIN inflight, stored \in VectorOutcomes :
       LET own == Locals(inflight, s)
           content == own.params.arguments.content
           metadata == Get(own.params.arguments, "metadata", EmptyObject)
       IN /\ inflight[s].stage = "storing"
          /\ request' = own.params
          /\ calls' = << Call("openai", "embeddings.create", Ok),
                         Call("qdrant", "upsert", stored) >>
          /\ inflight' = Drop(inflight, s)
          /\ IF stored # Ok
             THEN /\ points' = points
                  /\ response' = ErrorResult(stored)
             ELSE /\ points' = storeMemory(points, own.id, own.vector,
                                           own.payload)
                  /\ response' =
                       IF content.type # "string"
                       THEN ErrorResult(NotAFunctionError("content.substring"))
                       ELSE TextResult([success |-> TRUE,
                                        message |-> "Memory stored successfully",
                                        id |-> own.id,
                                        content |-> Truncated(content.chars),
                                        metadata |-> metadata])
  /\ UNCHANGED << pc, env, collection, minted, removed, pager >>

\* A delete_memory running between the awaits of the suspended invocations.
DeleteBetween ==
  /\ points # EmptyObject
  /\ DeleteMemory

NextConc == BeginStore \/ EmbedReturns \/ UpsertReturns \/ DeleteBetween

SpecConc == InitConc /\ [][NextConc]_vars

\* ----------------------------------------------------------------- C17
\* The invocation that returns in this step.
C17_Returning == DOMAIN inflight \ DOMAIN inflight'

C17_OwnPayload(own) ==
  \E now \in Times :
    own.payload = Payload(own.params.arguments.content, now,
                          Get(own.params.arguments, "metadata", EmptyObject))

\* C17: under every interleaving of store_memory invocations at their two
\* awaits, a step of one invocation leaves the locals of every other
\* in-flight invocation as they were and keeps its own arguments; the record
\* an invocation writes has the id that invocation minted, the vector
\* computed from its own content and its own payload, the other records stay
\* as they were, and the id its response reports is that record's id.
C17_OwnValuesOnly ==
  [][/\ \A s \in DOMAIN inflight \cap DOMAIN inflight' :
          /\ inflight'[s].params = inflight[s].params
          /\ inflight'[s] # inflight[s] =>
               \A t \in DOMAIN inflight \ {s} :
                 t \in DOMAIN inflight' /\ inflight'[t] = inflight[t]
     /\ \A s \in DOMAIN inflight' :
          inflight'[s].stage = "storing" =>
            /\ inflight'[s].vector =
                 generateEmbedding(inflight'[s].params.arguments.content)
            /\ C17_OwnPayload(inflight'[s])
            /\ \A t \in DOMAIN inflight' \ {s} :
                 inflight'[t].stage = "storing" => inflight'[t].id # inflight'[s].id
     /\ \A s \in C17_Returning :
          LET own == inflight[s]
          IN /\ request' = own.params
             /\ \A t \in DOMAIN inflight \ {s} :
                  t \in DOMAIN inflight' /\ inflight'[t] = inflight[t]
             /\ points' # points =>
                  /\ own.stage = "storing"
                  /\ DOMAIN points' = DOMAIN points \cup {own.id}
                  /\ own.id \notin DOMAIN points
                  /\ points'[own.id] =
                       [vector |-> generateEmbedding(own.params.arguments.content),
                        payload |-> own.payload]
                  /\ \A i \in DOMAIN points : points'[i] = points[i]
             /\ ~IsErrorTagged(response') =>
                  /\ own.stage = "storing"
                  /\ Body(response').id = own.id
                  /\ own.id \in DOMAIN points' \ DOMAIN points]_vars

\* A store_memory has returned the id of the record it wrote, carrying its
\* own vector, while an invocation that minted its id earlier, with other
\* content, is still suspended at its store call.
C17_Witness ==
  /\ request.name = "store_memory"
  /\ response # NoResponse
  /\ ~IsErrorTagged(response)
  /\ Body(response).id \in DOMAIN points
  /\ points[Body(response).id].vector =
       generateEmbedding(request.arguments.content)
  /\ \E s \in DOMAIN inflight :
       /\ inflight[s].stage = "storing"
       /\ inflight[s].id < Body(response).id
       /\ inflight[s].params.arguments.content # request.arguments.content
       /\ inflight[s].vector # points[Body(response).id].vector

====
